---- MODULE Spec2Model ----
(***************************************************************************)
(* Word cache and command dispatcher of the Slack insult bot               *)
(* (src/src/insult.rs, with send_message from src/src/main.rs).            *)
(*                                                                         *)
(* Text is modelled by TLA+ strings; a character is a string of length 1.  *)
(* Every inbound event is handled by one handler task; tasks interleave at *)
(* their await points and at the acquisition of the cache lock.            *)
(***************************************************************************)
EXTENDS Integers, Sequences, FiniteSets, TLC

(***************************************************************************)
(* Bounds of the model.                                                    *)
(***************************************************************************)
NumHandlers == 2

Handlers == 1..NumHandlers

(***************************************************************************)
(* Option and Result values.                                               *)
(***************************************************************************)
None == [some |-> FALSE]

Some(v) == [some |-> TRUE, v |-> v]

Ok(v) == [kind |-> "ok", v |-> v]

Err(e) == [kind |-> "err", e |-> e]

Panic == [kind |-> "panic"]

(***************************************************************************)
(* Characters and character classes used by the regular expressions.       *)
(***************************************************************************)
Ch(s, i) == SubSeq(s, i, i)

\* \w of the regex crate, which is Unicode-aware by default: the word
\* characters among U+0000..U+00FF, the characters a string constant of this
\* module can hold (the Unicode class goes on above U+00FF)
WordChars ==
    { "a", "b", "c", "d", "e", "f", "g", "h", "i", "j", "k", "l", "m",
      "n", "o", "p", "q", "r", "s", "t", "u", "v", "w", "x", "y", "z",
      "A", "B", "C", "D", "E", "F", "G", "H", "I", "J", "K", "L", "M",
      "N", "O", "P", "Q", "R", "S", "T", "U", "V", "W", "X", "Y", "Z",
      "0", "1", "2", "3", "4", "5", "6", "7", "8", "9", "_",
      "ª", "µ", "º", "À", "Á", "Â", "Ã", "Ä", "Å", "Æ", "Ç", "È", "É",
      "Ê", "Ë", "Ì", "Í", "Î", "Ï", "Ð", "Ñ", "Ò", "Ó", "Ô", "Õ", "Ö",
      "Ø", "Ù", "Ú", "Û", "Ü", "Ý", "Þ", "ß", "à", "á", "â", "ã", "ä",
      "å", "æ", "ç", "è", "é", "ê", "ë", "ì", "í", "î", "ï", "ð", "ñ",
      "ò", "ó", "ô", "õ", "ö", "ø", "ù", "ú", "û", "ü", "ý", "þ", "ÿ" }

\* \s of the regex crate and char::is_whitespace of str::trim (Unicode
\* White_Space), on the same alphabet: U+0009..U+000D, U+0020, U+0085, U+00A0
SpaceChars == { " ", "\t", "\n", "\r", "\f", "", "", " " }

PhraseChars == WordChars \cup { " ", ",", "-" }

IsWordAt(s, i) == i >= 1 /\ i <= Len(s) /\ Ch(s, i) \in WordChars

\* \b between position i-1 and position i (i in 1..Len(s)+1)
WordBoundary(s, i) == IsWordAt(s, i - 1) # IsWordAt(s, i)

\* the literal lit occurs in s at position i
LitAt(s, i, lit) ==
    /\ i >= 1
    /\ i + Len(lit) - 1 <= Len(s)
    /\ SubSeq(s, i, i + Len(lit) - 1) = lit

\* every character of s[i..j] belongs to class; TRUE for an empty range
AllIn(s, i, j, class) == \A k \in i..j : k >= 1 /\ k <= Len(s) /\ Ch(s, k) \in class

Min(S) == CHOOSE x \in S : \A y \in S : x <= y

Max(S) == CHOOSE x \in S : \A y \in S : x >= y

\* str::trim: strip leading and trailing whitespace
Trim(s) ==
    LET keep == { i \in 1..Len(s) : Ch(s, i) \notin SpaceChars }
    IN  IF keep = {} THEN "" ELSE SubSeq(s, Min(keep), Max(keep))

(***************************************************************************)
(* The three command patterns of handle_message.                           *)
(***************************************************************************)
\* \binsult\s+(<@U\w+>) : matches <<i, j, k>> with "insult" at i, the
\* mention token at j..k
NamedInsultMatches(text) ==
    { m \in (1..Len(text)) \X (1..Len(text)) \X (1..Len(text)) :
        /\ WordBoundary(text, m[1])
        /\ LitAt(text, m[1], "insult")
        /\ m[2] >= m[1] + 7
        /\ AllIn(text, m[1] + 6, m[2] - 1, SpaceChars)
        /\ LitAt(text, m[2], "<@U")
        /\ m[3] >= m[2] + 4
        /\ AllIn(text, m[2] + 3, m[3] - 1, WordChars)
        /\ Ch(text, m[3]) = ">" }

\* capture group 1 of the leftmost match
NamedInsultCapture(text) ==
    LET ms == NamedInsultMatches(text)
    IN  IF ms = {} THEN None
        ELSE LET m == CHOOSE x \in ms : \A y \in ms : x[1] <= y[1]
             IN  Some(SubSeq(text, m[2], m[3]))

\* \binsult\s+me\b
InsultMeIsMatch(text) ==
    \E i \in 1..Len(text), j \in 1..Len(text) :
        /\ WordBoundary(text, i)
        /\ LitAt(text, i, "insult")
        /\ j >= i + 7
        /\ AllIn(text, i + 6, j - 1, SpaceChars)
        /\ LitAt(text, j, "me")
        /\ WordBoundary(text, j + 2)

\* (?:<@U\w+>\s)? : the positions at which the optional prefix may end
\* (0: prefix absent)
MentionPrefixEnds(text) ==
    {0} \cup { p \in 1..Len(text) :
                 /\ LitAt(text, 1, "<@U")
                 /\ p >= 6
                 /\ AllIn(text, 4, p - 2, WordChars)
                 /\ Ch(text, p - 1) = ">"
                 /\ Ch(text, p) \in SpaceChars }

\* ^(?:<@U\w+>\s)?\s*add\s+(adjective|noun)\s+([\w ,-]+)$ :
\* matches [kw, g] with the keyword kw and group 2 starting at g
AddWordMatches(text) ==
    { m \in [kw : {"adjective", "noun"}, g : 1..Len(text)] :
        \E p \in MentionPrefixEnds(text), a \in 1..Len(text), b \in 1..Len(text) :
            /\ a >= p + 1
            /\ AllIn(text, p + 1, a - 1, SpaceChars)
            /\ LitAt(text, a, "add")
            /\ b >= a + 4
            /\ AllIn(text, a + 3, b - 1, SpaceChars)
            /\ LitAt(text, b, m.kw)
            /\ m.g >= b + Len(m.kw) + 1
            /\ AllIn(text, b + Len(m.kw), m.g - 1, SpaceChars)
            /\ AllIn(text, m.g, Len(text), PhraseChars) }

\* capture groups of the match the greedy \s+ prefers: the longest run of
\* whitespace that still leaves group 2 non-empty
AddWordCaptures(text) ==
    LET ms == AddWordMatches(text)
    IN  IF ms = {} THEN None
        ELSE LET m == CHOOSE x \in ms : \A y \in ms : x.g >= y.g
             IN  Some([pos |-> m.kw, insult |-> SubSeq(text, m.g, Len(text))])

to_user_tag(user_id) == "<@" \o user_id \o ">"

(***************************************************************************)
(* InsultFactory: the word cache.                                          *)
(***************************************************************************)
PartOfSpeech == {"Noun", "Adjective"}

InsultFactory(nouns, adjectives) == [nouns |-> nouns, adjectives |-> adjectives]

Range(seq) == { seq[i] : i \in 1..Len(seq) }

Vowels == { "a", "e", "i", "o", "u", "A", "E", "I", "O", "U" }

\* the article with the upper-case vowels forgotten
Article_lower_case_only(adjective) ==
    IF Len(adjective) > 0 /\ Ch(adjective, 1) \in {"a", "e", "i", "o", "u"}
    THEN "an" ELSE "a"

Article(adjective) ==
    IF Len(adjective) > 0 /\ Ch(adjective, 1) \in Vowels THEN "an" ELSE "a"

\* get_insult with the second emptiness test lost: an empty noun list yields
\* a phrase without a noun
get_insult_adjective_only(self) ==
    IF self.adjectives = <<>> THEN {None}
    ELSE { Some(Article(adjective) \o " " \o adjective \o " " \o noun) :
             adjective \in Range(self.adjectives),
             noun \in IF self.nouns = <<>> THEN {""} ELSE Range(self.nouns) }

\* get_insult: the set of values the two random draws can produce
get_insult(self) ==
    IF self.adjectives = <<>> THEN {None}
    ELSE IF self.nouns = <<>> THEN {None}
    ELSE { Some(Article(adjective) \o " " \o adjective \o " " \o noun) :
             adjective \in Range(self.adjectives), noun \in Range(self.nouns) }

\* insert_word without the membership test
insert_word_unchecked(self, pos, word) ==
    [cache |-> IF pos = "Noun"
               THEN [self EXCEPT !.nouns = Append(@, word)]
               ELSE [self EXCEPT !.adjectives = Append(@, word)],
     inserted |-> TRUE]

\* insert_word pushing before it tests for membership
insert_word_push_first(self, pos, word) ==
    LET list == IF pos = "Noun" THEN self.nouns ELSE self.adjectives
    IN  [cache |-> IF pos = "Noun"
                   THEN [self EXCEPT !.nouns = Append(list, word)]
                   ELSE [self EXCEPT !.adjectives = Append(list, word)],
         inserted |-> ~(\E i \in 1..Len(list) : list[i] = word)]

\* insert_word with the two lists confused
insert_word_wrong_list(self, pos, word) ==
    LET list == IF pos = "Noun" THEN self.adjectives ELSE self.nouns
    IN  IF \E i \in 1..Len(list) : list[i] = word
        THEN [cache |-> self, inserted |-> FALSE]
        ELSE [cache |-> IF pos = "Noun"
                        THEN [self EXCEPT !.adjectives = Append(list, word)]
                        ELSE [self EXCEPT !.nouns = Append(list, word)],
              inserted |-> TRUE]

\* insert_word reporting true also for a word it already holds
insert_word_always_true(self, pos, word) ==
    LET list == IF pos = "Noun" THEN self.nouns ELSE self.adjectives
    IN  IF \E i \in 1..Len(list) : list[i] = word
        THEN [cache |-> self, inserted |-> TRUE]
        ELSE [cache |-> IF pos = "Noun"
                        THEN [self EXCEPT !.nouns = Append(list, word)]
                        ELSE [self EXCEPT !.adjectives = Append(list, word)],
              inserted |-> TRUE]

\* insert_word: the cache afterwards and the returned flag
insert_word(self, pos, word) ==
    LET list == IF pos = "Noun" THEN self.nouns ELSE self.adjectives
    IN  IF \E i \in 1..Len(list) : list[i] = word
        THEN [cache |-> self, inserted |-> FALSE]
        ELSE [cache |-> IF pos = "Noun"
                        THEN [self EXCEPT !.nouns = Append(list, word)]
                        ELSE [self EXCEPT !.adjectives = Append(list, word)],
              inserted |-> TRUE]

(***************************************************************************)
(* The remote table: a scan returns its items, a put appends one.          *)
(* An item maps attribute names to attribute values; only the string       *)
(* member s of an attribute value is read.                                 *)
(***************************************************************************)
AttributeValue(s) == [s |-> s]

WordItem(word) == [word |-> AttributeValue(Some(word))]

\* String::pop replaced by a look at the last character
Pop_last_kept(data) ==
    IF data = "" THEN [data |-> data, chr |-> None]
    ELSE [data |-> data, chr |-> Some(Ch(data, Len(data)))]

\* String::pop: the string without its last character, and that character
Pop(data) ==
    IF data = "" THEN [data |-> data, chr |-> None]
    ELSE [data |-> SubSeq(data, 1, Len(data) - 1), chr |-> Some(Ch(data, Len(data)))]

\* the loop of fetch_insults over the items, from item number i on
RECURSIVE PartitionItems(_, _, _)
PartitionItems(items, i, acc) ==
    IF i > Len(items) THEN acc
    ELSE LET item == items[i]
         IN  IF ~("word" \in DOMAIN item /\ item["word"].s.some)
             THEN PartitionItems(items, i + 1, [acc EXCEPT !.discarded = @ + 1])
             ELSE LET popped == Pop(item["word"].s.v)
                  IN  IF popped.chr = Some("n")
                      THEN PartitionItems(items, i + 1,
                               [acc EXCEPT !.nouns = Append(@, popped.data)])
                      ELSE IF popped.chr = Some("a")
                      THEN PartitionItems(items, i + 1,
                               [acc EXCEPT !.adjectives = Append(@, popped.data)])
                      ELSE PartitionItems(items, i + 1,
                               [acc EXCEPT !.discarded = @ + 1])

\* fetch_insults falling back to an empty cache when the table cannot be read
fetch_insults_or_empty(table_name, scanned) ==
    IF ~table_name.some THEN Ok(InsultFactory(<<>>, <<>>))
    ELSE IF scanned.kind = "err" THEN Ok(InsultFactory(<<>>, <<>>))
    ELSE IF ~scanned.v.items.some THEN Panic
    ELSE LET acc == PartitionItems(scanned.v.items.v, 1,
                        [nouns |-> <<>>, adjectives |-> <<>>, discarded |-> 0])
         IN  Ok(InsultFactory(acc.nouns, acc.adjectives))

\* fetch_insults, given the INSULT_TABLE variable and the answer of the scan
fetch_insults(table_name, scanned) ==
    IF ~table_name.some THEN Err("VarError")
    ELSE IF scanned.kind = "err" THEN Err(scanned.e)
    ELSE IF ~scanned.v.items.some THEN Panic
    ELSE LET acc == PartitionItems(scanned.v.items.v, 1,
                        [nouns |-> <<>>, adjectives |-> <<>>, discarded |-> 0])
         IN  Ok(InsultFactory(acc.nouns, acc.adjectives))

\* insert_word_to_dynamo, given the INSULT_TABLE variable and whether the
\* put succeeds: the result and the items put
insert_word_to_dynamo(table_name, word, put_ok) ==
    IF ~table_name.some THEN [result |-> Err("VarError"), put |-> <<>>]
    ELSE IF ~put_ok THEN [result |-> Err("PutError"), put |-> <<>>]
    ELSE [result |-> Ok("unit"), put |-> <<WordItem(word)>>]

(***************************************************************************)
(* handle_message: which handler the text is dispatched to.                *)
(***************************************************************************)
NoCall ==
    [fn |-> "none", channel |-> "", text |-> "", user_tag |-> "", pos |-> "",
     insult |-> "", message |-> ""]

\* handle_message without the test for an empty word
handle_message_unchecked(event) ==
    LET named == NamedInsultCapture(event.text)
        add == AddWordCaptures(event.text)
    IN  IF named.some
        THEN [NoCall EXCEPT !.fn = "handle_say_insult", !.user_tag = named.v]
        ELSE IF InsultMeIsMatch(event.text)
        THEN [NoCall EXCEPT !.fn = "handle_say_insult",
                            !.user_tag = to_user_tag(event.user)]
        ELSE IF add.some
        THEN [NoCall EXCEPT !.fn = "handle_add_word",
                            !.pos = IF add.v.pos = "adjective" THEN "Adjective"
                                    ELSE "Noun",
                            !.insult = Trim(add.v.insult)]
        ELSE NoCall

\* handle_message trying the add-word pattern before the insult patterns
handle_message_add_first(event) ==
    LET named == NamedInsultCapture(event.text)
        add == AddWordCaptures(event.text)
    IN  IF add.some
        THEN LET pos == IF add.v.pos = "adjective" THEN "Adjective" ELSE "Noun"
                 insult == Trim(add.v.insult)
             IN  IF insult = ""
                 THEN [NoCall EXCEPT !.fn = "send_message",
                                     !.message = "Nice try wise guy."]
                 ELSE [NoCall EXCEPT !.fn = "handle_add_word",
                                     !.pos = pos, !.insult = insult]
        ELSE IF named.some
        THEN [NoCall EXCEPT !.fn = "handle_say_insult", !.user_tag = named.v]
        ELSE IF InsultMeIsMatch(event.text)
        THEN [NoCall EXCEPT !.fn = "handle_say_insult",
                            !.user_tag = to_user_tag(event.user)]
        ELSE NoCall

handle_message(event) ==
    LET named == NamedInsultCapture(event.text)
        add == AddWordCaptures(event.text)
    IN  IF named.some
        THEN [NoCall EXCEPT !.fn = "handle_say_insult", !.user_tag = named.v]
        ELSE IF InsultMeIsMatch(event.text)
        THEN [NoCall EXCEPT !.fn = "handle_say_insult",
                            !.user_tag = to_user_tag(event.user)]
        ELSE IF add.some
        THEN LET pos == IF add.v.pos = "adjective" THEN "Adjective" ELSE "Noun"
                 insult == Trim(add.v.insult)
             IN  IF insult = ""
                 THEN [NoCall EXCEPT !.fn = "send_message",
                                     !.message = "Nice try wise guy."]
                 ELSE [NoCall EXCEPT !.fn = "handle_add_word",
                                     !.pos = pos, !.insult = insult]
        ELSE NoCall

(***************************************************************************)
(* Inputs of the model: the inbound events, the contents of the remote     *)
(* table when the process starts and the process environment.  The texts   *)
(* and words are ASCII: TLC does not keep a character above U+007F intact  *)
(* in a state it writes out and reads back.                                *)
(***************************************************************************)
Texts ==
    { "insult me",
      "insult <@U2>",
      "add noun ox",
      "add adjective ox",
      "add noun  ",
      "hi",
      "insult me now",
      "add noun insult me" }

Events == [channel : {"C1"}, user : {"U1"}, text : Texts]

InitialStores ==
    { <<>>,
      <<WordItem("oxn")>>,
      <<WordItem("odda"), WordItem("pign")>>,
      <<WordItem("pign"), WordItem("pign"), WordItem("shya")>>,
      <<WordItem("zz"), [id |-> AttributeValue(Some("7"))],
        [word |-> AttributeValue(None)], WordItem("")>>,
      <<WordItem("Uglya"), WordItem("a"), WordItem("n")>> }

Environments == { Some("insults"), None }

\* handle_message on each of the events, tabulated
DispatchedPairs == { <<event, handle_message(event)>> : event \in Events }

Dispatched(event) == (CHOOSE p \in DispatchedPairs : p[1] = event)[2]

\* the answers client.scan can give for a table holding items
ScanAnswers(items) ==
    { Err("ScanError"), Ok([items |-> None]), Ok([items |-> Some(items)]) }

(***************************************************************************)
(* State.                                                                  *)
(***************************************************************************)
VARIABLES
    env,      \* INSULT_TABLE of the process environment (an Option)
    store,    \* items of the remote table
    cell,     \* INSTANCE: the OnceCell, None or Some(InsultFactory)
    permit,   \* the task holding the OnceCell's initialisation permit, or 0
    lock,     \* the RwLock around the cache: its readers and its writer (or 0)
    pc,       \* where each handler task stands
    call,     \* the call each handler task is executing, with its locals
    result,   \* what each handler task returned
    log,      \* per task, the calls it has made on the cache and outside
    loaded    \* the cache as fetch_insults built it

vars == <<env, store, cell, permit, lock, pc, call, result, log, loaded>>

Init ==
    /\ env \in Environments
    /\ store \in InitialStores
    /\ cell = None
    /\ permit = 0
    /\ lock = [readers |-> {}, writer |-> 0]
    /\ pc = [h \in Handlers |-> "idle"]
    /\ call = [h \in Handlers |-> NoCall]
    /\ result = [h \in Handlers |-> None]
    /\ log = [h \in Handlers |-> <<>>]
    /\ loaded = None

Logged(h, entry) == [log EXCEPT ![h] = Append(@, entry)]

\* the program point after insult_factory().await? in the calling handler
AfterFactory(h) == IF call[h].fn = "handle_say_insult" THEN "read" ELSE "write"

(***************************************************************************)
(* handle_message: classify the event and enter the handler.               *)
(***************************************************************************)
HandleMessage(h) ==
    /\ pc[h] = "idle"
    /\ \E event \in Events :
         LET c == Dispatched(event)
         IN  /\ call' = [call EXCEPT ![h] = [c EXCEPT !.channel = event.channel,
                                                     !.text = event.text]]
             /\ pc' = [pc EXCEPT ![h] =
                         IF c.fn = "none" THEN "done"
                         ELSE IF c.fn = "send_message" THEN "send"
                         ELSE "factory"]
             /\ result' = [result EXCEPT ![h] =
                             IF c.fn = "none" THEN Some(Ok("unit")) ELSE @]
    /\ UNCHANGED <<env, store, cell, permit, lock, log, loaded>>

(***************************************************************************)
(* insult_factory: INSTANCE.get_or_try_init(fetch_insults_rw).             *)
(***************************************************************************)
\* the cell is initialised: return the reference
InsultFactoryGet(h) ==
    /\ pc[h] = "factory"
    /\ cell.some
    /\ pc' = [pc EXCEPT ![h] = AfterFactory(h)]
    /\ log' = Logged(h, [op |-> "insult_factory", res |-> "ok"])
    /\ UNCHANGED <<env, store, cell, permit, lock, call, result, loaded>>

\* the cell is empty and no task is initialising it: take the permit and
\* call the initialiser
InsultFactoryInit(h) ==
    /\ pc[h] = "factory"
    /\ ~cell.some
    /\ permit = 0
    /\ permit' = h
    /\ pc' = [pc EXCEPT ![h] = "fetch"]
    /\ UNCHANGED <<env, store, cell, lock, call, result, log, loaded>>

\* the initialiser returns: on Ok the value is set, on Err or on a panic the
\* permit is dropped and the cell stays empty
FetchInsults(h) ==
    /\ pc[h] = "fetch"
    /\ \E scanned \in ScanAnswers(store) :
         LET value == fetch_insults(env, scanned)
             scan == IF ~env.some THEN "none"
                     ELSE IF scanned.kind = "err" THEN "err"
                     ELSE IF scanned.v.items.some THEN "items" ELSE "noitems"
         IN  /\ log' = [log EXCEPT ![h] = @ \o
                          << [op |-> "fetch_insults", scan |-> scan, res |-> value.kind],
                             [op |-> "insult_factory", res |-> value.kind] >>]
             /\ IF value.kind = "ok"
                THEN /\ cell' = Some(value.v)
                     /\ loaded' = Some(value.v)
                     /\ pc' = [pc EXCEPT ![h] = AfterFactory(h)]
                     /\ UNCHANGED result
                ELSE /\ pc' = [pc EXCEPT ![h] = "done"]
                     /\ result' = [result EXCEPT ![h] = Some(value)]
                     /\ UNCHANGED <<cell, loaded>>
    /\ permit' = 0
    /\ UNCHANGED <<env, store, lock, call>>

(***************************************************************************)
(* handle_say_insult: read the cache under the read lock, then reply.      *)
(* The read guard is a temporary of the match statement: it is held while  *)
(* get_insult runs and the message is formatted, and dropped before the    *)
(* reply is sent.  Neither get_insult nor insert_word can panic under a    *)
(* guard, so the lock is never poisoned and read() and write() return Ok.  *)
(***************************************************************************)
\* read() granted although a writer holds the lock
SayInsultRead_unguarded(h) ==
    /\ pc[h] = "read"
    /\ lock' = [lock EXCEPT !.readers = @ \cup {h}]
    /\ pc' = [pc EXCEPT ![h] = "get"]
    /\ UNCHANGED <<env, store, cell, permit, call, result, log, loaded>>

SayInsultRead(h) ==
    /\ pc[h] = "read"
    /\ lock.writer = 0
    /\ lock' = [lock EXCEPT !.readers = @ \cup {h}]
    /\ pc' = [pc EXCEPT ![h] = "get"]
    /\ UNCHANGED <<env, store, cell, permit, call, result, log, loaded>>

\* the read guard kept until the handler returns
SayInsultGet_keeps_guard(h) ==
    /\ pc[h] = "get"
    /\ \E insult \in get_insult(cell.v) :
         /\ call' = [call EXCEPT ![h].message =
                       IF insult.some
                       THEN call[h].user_tag \o " is " \o insult.v
                       ELSE "Shut up."]
         /\ log' = Logged(h, [op |-> "get_insult", cache |-> cell.v, res |-> insult])
    /\ pc' = [pc EXCEPT ![h] = "send"]
    /\ UNCHANGED <<env, store, cell, permit, lock, result, loaded>>

SayInsultGet(h) ==
    /\ pc[h] = "get"
    /\ \E insult \in get_insult(cell.v) :
         /\ call' = [call EXCEPT ![h].message =
                       IF insult.some
                       THEN call[h].user_tag \o " is " \o insult.v
                       ELSE "Shut up."]
         /\ log' = Logged(h, [op |-> "get_insult", cache |-> cell.v, res |-> insult])
    /\ lock' = [lock EXCEPT !.readers = @ \ {h}]
    /\ pc' = [pc EXCEPT ![h] = "send"]
    /\ UNCHANGED <<env, store, cell, permit, result, loaded>>

(***************************************************************************)
(* handle_add_word: insert under the write lock, then put and reply.       *)
(***************************************************************************)
\* insert_word_to_cache: cache.write()
InsertWordToCacheLock(h) ==
    /\ pc[h] = "write"
    /\ lock.writer = 0
    /\ lock.readers = {}
    /\ lock' = [lock EXCEPT !.writer = h]
    /\ pc' = [pc EXCEPT ![h] = "insert"]
    /\ UNCHANGED <<env, store, cell, permit, call, result, log, loaded>>

\* insert_word_to_cache: insert_word under the guard, which is then dropped;
\* handle_add_word branches on the flag
InsertWordToCache(h) ==
    /\ pc[h] = "insert"
    /\ LET r == insert_word(cell.v, call[h].pos, call[h].insult)
       IN  /\ cell' = Some(r.cache)
           /\ log' = Logged(h, [op |-> "insert_word", pos |-> call[h].pos,
                                word |-> call[h].insult, inserted |-> r.inserted])
           /\ IF r.inserted
              THEN /\ pc' = [pc EXCEPT ![h] = "put"]
                   /\ UNCHANGED call
              ELSE /\ pc' = [pc EXCEPT ![h] = "send"]
                   /\ call' = [call EXCEPT ![h].message = "I already have that word!"]
    /\ lock' = [lock EXCEPT !.writer = 0]
    /\ UNCHANGED <<env, store, permit, result, loaded>>

\* the word with its category character pushed onto it
Tagged(pos, insult) == insult \o (IF pos = "Noun" THEN "n" ELSE "a")

\* insult.push(c); insert_word_to_dynamo(insult).await?
InsertWordToDynamo(h) ==
    /\ pc[h] = "put"
    /\ \E put_ok \in BOOLEAN :
         LET insult == Tagged(call[h].pos, call[h].insult)
             r == insert_word_to_dynamo(env, insult, put_ok)
         IN  /\ store' = store \o r.put
             /\ log' = Logged(h, [op |-> "insert_word_to_dynamo",
                                  word |-> insult, res |-> r.result.kind])
             /\ IF r.result.kind = "ok"
                THEN /\ pc' = [pc EXCEPT ![h] = "send"]
                     /\ call' = [call EXCEPT ![h].message = "Added."]
                     /\ UNCHANGED result
                ELSE /\ pc' = [pc EXCEPT ![h] = "done"]
                     /\ result' = [result EXCEPT ![h] = Some(r.result)]
                     /\ UNCHANGED call
    /\ UNCHANGED <<env, cell, permit, lock, loaded>>

(***************************************************************************)
(* send_message: post the reply; a failure is logged and swallowed.        *)
(***************************************************************************)
\* send_message returning the error of _send_message to its caller
send_message_propagating(channel, message, delivered) ==
    IF delivered THEN Ok("unit") ELSE Err("SendError")

\* send_message: what the caller gets, given whether _send_message succeeded
send_message(channel, message, delivered) ==
    IF delivered THEN Ok("unit") ELSE Ok("unit")

SendMessage(h) ==
    /\ pc[h] = "send"
    /\ \E delivered \in BOOLEAN :
         /\ log' = Logged(h, [op |-> "send_message", channel |-> call[h].channel,
                              message |-> call[h].message, delivered |-> delivered])
         /\ result' = [result EXCEPT ![h] =
                         Some(send_message(call[h].channel, call[h].message, delivered))]
    /\ pc' = [pc EXCEPT ![h] = "done"]
    /\ UNCHANGED <<env, store, cell, permit, lock, call, loaded>>

Next ==
    \E h \in Handlers :
        \/ HandleMessage(h)
        \/ InsultFactoryGet(h)
        \/ InsultFactoryInit(h)
        \/ FetchInsults(h)
        \/ SayInsultRead(h)
        \/ SayInsultGet(h)
        \/ InsertWordToCacheLock(h)
        \/ InsertWordToCache(h)
        \/ InsertWordToDynamo(h)
        \/ SendMessage(h)

Spec == Init /\ [][Next]_vars

\* words an add-word command can carry
Words == { "ox", "man", "a", "n", "big ox", "x-ray, a" }

\* a fresh process whose table holds the one record a successful add-word
\* of an earlier process has put there
InitAfterAdd ==
    /\ env \in Environments
    /\ \E word \in Words, pos \in PartOfSpeech :
         store = insert_word_to_dynamo(Some("insults"), Tagged(pos, word), TRUE).put
    /\ cell = None
    /\ permit = 0
    /\ lock = [readers |-> {}, writer |-> 0]
    /\ pc = [h \in Handlers |-> "idle"]
    /\ call = [h \in Handlers |-> NoCall]
    /\ result = [h \in Handlers |-> None]
    /\ log = [h \in Handlers |-> <<>>]
    /\ loaded = None

RoundTripSpec == InitAfterAdd /\ [][Next]_vars

\* a step of a handler task that has received its event
Step(h) ==
    \/ InsultFactoryGet(h)
    \/ InsultFactoryInit(h)
    \/ FetchInsults(h)
    \/ SayInsultRead(h)
    \/ SayInsultGet(h)
    \/ InsertWordToCacheLock(h)
    \/ InsertWordToCache(h)
    \/ InsertWordToDynamo(h)
    \/ SendMessage(h)

\* the process started on a table holding one record
InitOneRecord == Init /\ store = <<WordItem("oxn")>>

\* the runtime keeps polling every task that can make a step, and every
\* call on the remote table or on Slack returns
FairSpec ==
    InitOneRecord /\ [][Next]_vars /\ \A h \in Handlers : WF_vars(Step(h))

(***************************************************************************)
(* Reading the logs.                                                       *)
(***************************************************************************)
\* the entries of task h for the call op
Entries(h, op) == { log[h][i] : i \in { j \in 1..Len(log[h]) : log[h][j].op = op } }

Did(h, op) == Entries(h, op) # {}

\* tasks whose insult_factory call has returned, with what it returned
FactoryReturned == { h \in Handlers : Did(h, "insult_factory") }

FactoryResult(h) == (CHOOSE e \in Entries(h, "insult_factory") : TRUE).res

\* number of scans of the remote table the process has made (a task runs
\* fetch_insults at most once, and it scans unless INSULT_TABLE is unset)
ScanCalls ==
    Cardinality({ h \in Handlers :
                    \E e \in Entries(h, "fetch_insults") : e.scan # "none" })

\* the replies task h has handed to send_message
Replies(h) == { e.message : e \in Entries(h, "send_message") }

List(cache, pos) == IF pos = "Noun" THEN cache.nouns ELSE cache.adjectives

NoDuplicates(list) ==
    \A i \in 1..Len(list), j \in 1..Len(list) : list[i] = list[j] => i = j

Occurrences(list, word) == Cardinality({ i \in 1..Len(list) : list[i] = word })

(***************************************************************************)
(* C1: the process scans the remote table at most once, and all tasks whose *)
(* insult_factory call has returned got the same outcome.                   *)
(***************************************************************************)
C1_SingleScanSharedOutcome ==
    /\ ScanCalls <= 1
    /\ \A h1 \in FactoryReturned, h2 \in FactoryReturned :
         FactoryResult(h1) = FactoryResult(h2)

(***************************************************************************)
(* C2: once an insult_factory call has returned an error, the remote table *)
(* is not scanned again and the cell is never initialised.                 *)
(***************************************************************************)
InitFailed == \E h \in FactoryReturned : FactoryResult(h) = "err"

C2_FailureIsFinal ==
    [][InitFailed => (ScanCalls' = ScanCalls /\ ~cell'.some)]_vars

(***************************************************************************)
(* C3: neither list of an initialised cache holds a string twice.          *)
(***************************************************************************)
C3_NoDuplicateWords ==
    cell.some => NoDuplicates(cell.v.nouns) /\ NoDuplicates(cell.v.adjectives)

(***************************************************************************)
(* C4: for a word that the loaded cache does not hold in a category, of    *)
(* all the inserts of that word into that category exactly one returns     *)
(* true, the word then occurs once in the list, and the list has grown by  *)
(* one element per distinct word inserted.                                 *)
(***************************************************************************)
InsertsOf(pos, word) ==
    UNION { { <<h, e>> : e \in { x \in Entries(h, "insert_word") :
                                    x.pos = pos /\ x.word = word } } :
            h \in Handlers }

InsertedWords(pos) ==
    { e.word : e \in { x \in UNION { Entries(h, "insert_word") : h \in Handlers } :
                         x.pos = pos /\ x.inserted } }

C4_ExactlyOneInserted ==
    \A h \in Handlers : \A a \in Entries(h, "insert_word") :
        a.word \notin Range(List(loaded.v, a.pos)) =>
            /\ Cardinality({ x \in InsertsOf(a.pos, a.word) : x[2].inserted }) = 1
            /\ Occurrences(List(cell.v, a.pos), a.word) = 1
            /\ Len(List(cell.v, a.pos)) =
                 Len(List(loaded.v, a.pos)) + Cardinality(InsertedWords(a.pos))

C4_Witness ==
    \E h1 \in Handlers, h2 \in Handlers :
        \E a \in Entries(h1, "insert_word"), b \in Entries(h2, "insert_word") :
            /\ h1 # h2
            /\ a.pos = b.pos /\ a.word = b.word
            /\ a.word \notin Range(List(loaded.v, a.pos))
            /\ a.inserted /\ ~b.inserted

(***************************************************************************)
(* C5: a handler whose put failed after its insert returned true still     *)
(* sends "Added." and does not return the put's error.                     *)
(***************************************************************************)
PutFailed(h) == \E e \in Entries(h, "insert_word_to_dynamo") : e.res = "err"

C5_PutFailureStillReplies ==
    \A h \in Handlers :
        (pc[h] = "done" /\ PutFailed(h)) =>
            /\ "Added." \in Replies(h)
            /\ result[h] = Some(Ok("unit"))

(***************************************************************************)
(* C6: a handler whose insert returned false never puts and replies        *)
(* "I already have that word!"; none of its steps changes the cache or the *)
(* remote table.                                                           *)
(***************************************************************************)
AlreadyPresent(h) == \E e \in Entries(h, "insert_word") : ~e.inserted

C6_AlreadyPresentNoEffect ==
    /\ [](\A h \in Handlers :
            AlreadyPresent(h) =>
                /\ ~Did(h, "insert_word_to_dynamo")
                /\ call[h].message = "I already have that word!"
                /\ pc[h] = "done" =>
                     /\ Replies(h) = {"I already have that word!"}
                     /\ result[h] = Some(Ok("unit")))
    /\ [][\A h \in Handlers :
            (AlreadyPresent(h)' /\ pc'[h] # pc[h]) =>
                (cell' = cell /\ store' = store)]_vars

C6_Witness ==
    \E h \in Handlers :
        /\ AlreadyPresent(h)
        /\ pc[h] = "done"
        /\ Replies(h) = {"I already have that word!"}

(***************************************************************************)
(* C7: a handler whose initialisation failed (INSULT_TABLE unset or the    *)
(* scan returned an error) returns that error, sends no reply and makes no *)
(* insert and no put.                                                      *)
(***************************************************************************)
InitFailedIn(h) == \E e \in Entries(h, "fetch_insults") : e.scan \in {"none", "err"}

C7_InitFailureNoReply ==
    \A h \in Handlers :
        InitFailedIn(h) =>
            /\ pc[h] = "done"
            /\ result[h].some /\ result[h].v.kind = "err"
            /\ ~Did(h, "send_message")
            /\ ~Did(h, "insert_word_to_dynamo")
            /\ ~Did(h, "insert_word")
            /\ ~Did(h, "get_insult")

C7_Witness ==
    \E h1 \in Handlers, h2 \in Handlers :
        /\ InitFailedIn(h1) /\ call[h1].fn = "handle_say_insult"
        /\ InitFailedIn(h2) /\ call[h2].fn = "handle_add_word"
        /\ \E e \in Entries(h2, "fetch_insults") : e.scan = "err"

(***************************************************************************)
(* C8: fetch_insults fails only when INSULT_TABLE is unset or the scan     *)
(* returned an error.                                                      *)
(***************************************************************************)
C8_InitFailsOnlyOnConfigOrScanError ==
    \A h \in Handlers : \A e \in Entries(h, "fetch_insults") :
        e.res # "ok" => e.scan \in {"none", "err"}

(***************************************************************************)
(* C9: get_insult returns None exactly when one of the two lists it read   *)
(* is empty; the handler then replies "Shut up." and otherwise             *)
(* "<target> is <phrase>".                                                 *)
(***************************************************************************)
C9_NoneIffCategoryEmpty ==
    \A h \in Handlers : \A g \in Entries(h, "get_insult") :
        LET empty == g.cache.adjectives = <<>> \/ g.cache.nouns = <<>>
            reply == IF empty THEN "Shut up."
                     ELSE call[h].user_tag \o " is " \o g.res.v
        IN  /\ ~g.res.some <=> empty
            /\ call[h].message = reply
            /\ pc[h] = "done" => Replies(h) = {reply}

C9_Witness ==
    \E h \in Handlers : \E g \in Entries(h, "get_insult") :
        /\ g.cache.nouns = <<>>
        /\ g.cache.adjectives # <<>>
        /\ pc[h] = "done"
        /\ Replies(h) = {"Shut up."}

(***************************************************************************)
(* C10: a message that matches the add-word pattern with a word that is    *)
(* empty after trimming is answered "Nice try wise guy." and its handler   *)
(* calls nothing else: no insult_factory, no scan, no insert, no put.      *)
(***************************************************************************)
RejectedTexts ==
    UNION { IF /\ ~NamedInsultCapture(t).some
               /\ ~InsultMeIsMatch(t)
               /\ AddWordCaptures(t).some
               /\ Trim(AddWordCaptures(t).v.insult) = ""
            THEN {t} ELSE {} : t \in Texts }

C10_RejectedNoCacheAccess ==
    \A h \in Handlers :
        (pc[h] # "idle" /\ call[h].text \in RejectedTexts) =>
            /\ pc[h] \in {"send", "done"}
            /\ permit # h
            /\ h \notin lock.readers /\ lock.writer # h
            /\ \A i \in 1..Len(log[h]) :
                 log[h][i].op = "send_message" /\ log[h][i].message = "Nice try wise guy."
            /\ Len(log[h]) = IF pc[h] = "done" THEN 1 ELSE 0

C10_Witness ==
    \E h \in Handlers :
        /\ call[h].text \in RejectedTexts
        /\ pc[h] = "done"
        /\ Replies(h) = {"Nice try wise guy."}
        /\ ~cell.some
        /\ ScanCalls = 0

(***************************************************************************)
(* C11: a phrase returned by get_insult is "<article> <descriptor>         *)
(* <subject>" for a descriptor and a subject of the lists it read, and the *)
(* article is "an" exactly when the descriptor starts with one of          *)
(* a e i o u in either case ("a" for the empty descriptor).                *)
(***************************************************************************)
StartsWithVowel(word) ==
    \E v \in {"a", "e", "i", "o", "u", "A", "E", "I", "O", "U"} :
        Len(word) >= 1 /\ SubSeq(word, 1, 1) = v

C11_PhraseFormAndArticle ==
    \A h \in Handlers : \A g \in Entries(h, "get_insult") :
        g.res.some =>
            \E d \in Range(g.cache.adjectives), s \in Range(g.cache.nouns) :
                \/ StartsWithVowel(d) /\ g.res.v = "an " \o d \o " " \o s
                \/ ~StartsWithVowel(d) /\ g.res.v = "a " \o d \o " " \o s

C11_Witness ==
    \E h1 \in Handlers, h2 \in Handlers :
        \E g1 \in Entries(h1, "get_insult"), g2 \in Entries(h2, "get_insult") :
            /\ g1.res = Some("an Ugly ")
            /\ g2.res = Some("a  ")

(***************************************************************************)
(* C12: a reply that could not be delivered changes nothing else: the      *)
(* handler still returns Ok, it sends once, and the step that sends leaves *)
(* the cache, the remote table, the permit and the lock as they are.       *)
(***************************************************************************)
Sends(h) == { i \in 1..Len(log[h]) : log[h][i].op = "send_message" }

C12_SendFailureSwallowed ==
    /\ [](\A h \in Handlers :
            Sends(h) # {} =>
                /\ Cardinality(Sends(h)) = 1
                /\ pc[h] = "done"
                /\ result[h] = Some(Ok("unit")))
    /\ [][\A h \in Handlers :
            Sends(h)' # Sends(h) =>
                /\ cell' = cell /\ store' = store
                /\ permit' = permit /\ lock' = lock]_vars

C12_Witness ==
    \E h \in Handlers : \E e \in Entries(h, "send_message") :
        /\ ~e.delivered
        /\ e.message = "Added."
        /\ pc[h] = "done"
        /\ result[h] = Some(Ok("unit"))
        /\ \E i \in 1..Len(store) : store[i] = WordItem(call[h].insult \o "n")

(***************************************************************************)
(* C13: a message in which the words "insult me" are followed by further   *)
(* words is not dispatched to handle_say_insult and gets no insult reply.  *)
(***************************************************************************)
InsultMeMidTexts ==
    UNION { IF \E i \in 1..Len(t) :
                 /\ LitAt(t, i, "insult me")
                 /\ \E k \in (i + 9)..Len(t) : Ch(t, k) \in WordChars
            THEN {t} ELSE {} : t \in Texts }

C13_InsultMeOnlyAsTrailingClause ==
    \A h \in Handlers :
        (pc[h] # "idle" /\ call[h].text \in InsultMeMidTexts) =>
            /\ call[h].fn # "handle_say_insult"
            /\ ~Did(h, "get_insult")
            /\ Replies(h) = {}

(***************************************************************************)
(* C14: a message goes to the handler of the first pattern it matches, in  *)
(* the order named insult, insult me, add word, and to no other: a message *)
(* matching an insult pattern never inserts or puts, an add-word message   *)
(* never reads a phrase, and a message matching no pattern returns Ok      *)
(* without any call at all.                                                *)
(***************************************************************************)
NamedInsultTexts ==
    UNION { IF NamedInsultCapture(t).some THEN {t} ELSE {} : t \in Texts }

InsultMeTexts == UNION { IF InsultMeIsMatch(t) THEN {t} ELSE {} : t \in Texts }

AddWordTexts == UNION { IF AddWordCaptures(t).some THEN {t} ELSE {} : t \in Texts }

\* the target of each insult request: the mention token captured by the
\* named pattern if it matches, the requester's own tag otherwise
InsultTargets ==
    { <<t, IF NamedInsultCapture(t).some THEN NamedInsultCapture(t).v ELSE "<@U1>">> :
        t \in Texts }

C14_FirstMatchWins ==
    \A h \in Handlers :
        pc[h] # "idle" =>
            LET t == call[h].text
                calls == { log[h][i].op : i \in 1..Len(log[h]) }
            IN  IF t \in NamedInsultTexts \cup InsultMeTexts
                THEN /\ call[h].fn = "handle_say_insult"
                     /\ <<t, call[h].user_tag>> \in InsultTargets
                     /\ calls \subseteq {"fetch_insults", "insult_factory",
                                         "get_insult", "send_message"}
                ELSE IF t \in AddWordTexts
                THEN /\ call[h].fn \in {"handle_add_word", "send_message"}
                     /\ calls \subseteq {"fetch_insults", "insult_factory", "insert_word",
                                         "insert_word_to_dynamo", "send_message"}
                ELSE /\ call[h].fn = "none"
                     /\ pc[h] = "done"
                     /\ result[h] = Some(Ok("unit"))
                     /\ log[h] = <<>>
                     /\ permit # h

C14_Witness ==
    \E h1 \in Handlers, h2 \in Handlers :
        /\ call[h1].text \in InsultMeTexts \cap AddWordTexts
        /\ pc[h1] = "done"
        /\ Did(h1, "get_insult")
        /\ call[h2].text \notin NamedInsultTexts \cup InsultMeTexts \cup AddWordTexts
        /\ pc[h2] = "done"

(***************************************************************************)
(* C15: while a task is between write() and the end of insert_word, no     *)
(* other task is reading or writing the cache; the lock's writer and       *)
(* readers are exactly the tasks at those points.                          *)
(***************************************************************************)
C15_WriterExcludesAll ==
    /\ lock.readers = { h \in Handlers : pc[h] = "get" }
    /\ \A h \in Handlers : pc[h] = "insert" <=> lock.writer = h
    /\ \A h \in Handlers :
         pc[h] = "insert" =>
             \A o \in Handlers \ {h} : pc[o] \notin {"get", "insert"}

C15_Witness ==
    \E h1 \in Handlers, h2 \in Handlers :
        /\ pc[h1] = "insert" /\ lock.writer = h1
        /\ pc[h2] = "read"

\* two readers hold the lock together
C15_ReadersShare == Cardinality(lock.readers) >= 2

(***************************************************************************)
(* C16: once the cache is initialised, the only step that changes it is an *)
(* insert that returns true, and that step appends the new word at the end *)
(* of its own list and leaves the other list as it is.                     *)
(***************************************************************************)
C16_OnlyInsertAppends ==
    [][cell.some =>
         \/ cell' = cell
         \/ \E h \in Handlers :
              /\ pc[h] = "insert" /\ pc'[h] = "put"
              /\ call[h].insult \notin Range(List(cell.v, call[h].pos))
              /\ cell'.some
              /\ IF call[h].pos = "Noun"
                 THEN /\ cell'.v.nouns = cell.v.nouns \o <<call[h].insult>>
                      /\ cell'.v.adjectives = cell.v.adjectives
                 ELSE /\ cell'.v.adjectives = cell.v.adjectives \o <<call[h].insult>>
                      /\ cell'.v.nouns = cell.v.nouns]_vars

C16_Witness ==
    \E h \in Handlers : \E e \in Entries(h, "insert_word") :
        /\ e.inserted /\ e.pos = "Noun"
        /\ loaded.v.nouns # <<>> /\ loaded.v.adjectives # <<>>
        /\ cell.v.nouns = loaded.v.nouns \o <<e.word>>
        /\ cell.v.adjectives = loaded.v.adjectives

(***************************************************************************)
(* C17: no word of an initialised cache is the empty string.               *)
(***************************************************************************)
C17_NoEmptyWord ==
    cell.some => "" \notin Range(cell.v.nouns) \cup Range(cell.v.adjectives)

(***************************************************************************)
(* C18: a task puts a record only after its own insert of that word into   *)
(* that category returned true; no record is put twice in the process,     *)
(* whether the puts succeed or fail, and a failed put leaves the word in   *)
(* the cache.                                                              *)
(***************************************************************************)
Puts(h) == { i \in 1..Len(log[h]) : log[h][i].op = "insert_word_to_dynamo" }

C18_PutOnlyAfterInserted ==
    /\ \A h \in Handlers : \A i \in Puts(h) :
         /\ \E j \in 1..(i - 1) :
              /\ log[h][j].op = "insert_word"
              /\ log[h][j].inserted
              /\ log[h][i].word =
                   log[h][j].word \o (IF log[h][j].pos = "Noun" THEN "n" ELSE "a")
         /\ log[h][i].res = "err" =>
              call[h].insult \in Range(List(cell.v, call[h].pos))
    /\ \A h1 \in Handlers, h2 \in Handlers : \A i1 \in Puts(h1), i2 \in Puts(h2) :
         log[h1][i1].word = log[h2][i2].word => (h1 = h2 /\ i1 = i2)

C18_Witness ==
    \E h1 \in Handlers, h2 \in Handlers :
        /\ PutFailed(h1)
        /\ AlreadyPresent(h2)
        /\ call[h1].pos = call[h2].pos /\ call[h1].insult = call[h2].insult
        /\ Puts(h2) = {}
        /\ pc[h1] = "done" /\ pc[h2] = "done"

(***************************************************************************)
(* C19: no task holds the cache lock while its scan, its put or its reply  *)
(* is in flight, and every task that has received an event eventually      *)
(* returns.                                                                *)
(***************************************************************************)
C19_EveryCommandCompletes ==
    /\ [](\A h \in Handlers :
            pc[h] \in {"factory", "fetch", "put", "send", "done"} =>
                (h \notin lock.readers /\ lock.writer # h))
    /\ \A h \in Handlers : (pc[h] # "idle") ~> (pc[h] = "done" /\ result[h].some)

C19_Witness ==
    \E h1 \in Handlers, h2 \in Handlers :
        /\ pc[h1] = "done" /\ Did(h1, "insert_word")
        /\ pc[h2] = "done" /\ Did(h2, "get_insult")
        /\ Did(h1, "fetch_insults")
        /\ ~Did(h2, "fetch_insults")

(***************************************************************************)
(* C20: a process started on a table that holds the record of a successful *)
(* add-word of word w in category c initialises its cache, when the        *)
(* initialisation succeeds, to exactly w in category c; and the record of  *)
(* every successful put of the running process is decoded by fetch_insults *)
(* into exactly the added word in the added category.                      *)
(***************************************************************************)
Decoded(pos, word) ==
    IF pos = "Noun" THEN InsultFactory(<<word>>, <<>>)
                    ELSE InsultFactory(<<>>, <<word>>)

C20_PutThenFetchRoundTrip ==
    /\ \A word \in Words, pos \in PartOfSpeech :
          (/\ loaded.some
           /\ store # <<>>
           /\ store[1] = WordItem(Tagged(pos, word))) => loaded.v = Decoded(pos, word)
    /\ \A h \in Handlers : \A p \in Entries(h, "insert_word_to_dynamo") :
          p.res = "ok" =>
              /\ \E i \in 1..Len(store) : store[i] = WordItem(p.word)
              /\ fetch_insults(Some("insults"), Ok([items |-> Some(<<WordItem(p.word)>>)]))
                     = Ok(Decoded(call[h].pos, call[h].insult))

C20_Witness ==
    /\ store # <<>>
    /\ store[1] = WordItem("mann")
    /\ loaded = Some(InsultFactory(<<"man">>, <<>>))
    /\ \E h \in Handlers : \E p \in Entries(h, "insert_word_to_dynamo") :
          p.res = "ok" /\ call[h].pos = "Adjective"
====
